---- MODULE Spec2Model ----
(***************************************************************************)
(* Version-decision engine of the monorepo version manager: the cascade    *)
(* propagator (src/graph/index.ts), the per-module version computation of  *)
(* MonorepoVersionRunner.run (src/runner.ts), the semver helpers           *)
(* (src/semver/index.ts) and the staging VersionManager                    *)
(* (src/adapters/versionManager.ts).                                       *)
(***************************************************************************)
EXTENDS Integers, Sequences, FiniteSets, TLC

(***************************************************************************)
(* Bounds of the model.                                                    *)
(***************************************************************************)
\* largest number of affects edges of a module graph
MaxEdges == 2
\* largest number of modules that carry version-bumping commits
MaxChanged == 2

\* largest ordinary value of a major, minor or patch number on disk
MaxPart == 1
\* largest ordinary value of a pre-release counter on disk
MaxCounter == 1

\* largest number of VersionManager calls in one behaviour
MaxCalls == 4

\* largest number of version stages applied one after another
MaxStages == 2

\* largest number of commits of one module
MaxCommits == 2

\* largest number of bump types merged by one maxBumpType call
MaxMerge == 4

\* the module ids of the repository under analysis
Modules == {"lib", "app", "util"}

BumpTypes == {"none", "patch", "minor", "major"}

\* priority table of maxBumpType
priority == [none |-> 0, patch |-> 1, minor |-> 2, major |-> 3]

\* the reduce step returning current whatever max is
MaxOf2_KeepsLast(max, current) == current

\* reduce step of maxBumpType: keep the higher of max and current; priority[current]
\* is undefined for a value that is no key of the table, and undefined > n is false
MaxOf2(max, current) ==
  IF current \in DOMAIN priority /\ priority[current] > priority[max] THEN current ELSE max

RECURSIVE maxBumpTypeFrom(_, _)
maxBumpTypeFrom(max, bumpTypes) ==
  IF bumpTypes = <<>> THEN max
  ELSE maxBumpTypeFrom(MaxOf2(max, Head(bumpTypes)), Tail(bumpTypes))

\* maxBumpType(bumpTypes): reduce from 'none'
maxBumpType(bumpTypes) == maxBumpTypeFrom("none", bumpTypes)

(***************************************************************************)
(* Configuration: the dependency rules.                                    *)
(***************************************************************************)
DEFAULT_RULES ==
  [onMajorOfDependency |-> "minor", onMinorOfDependency |-> "patch",
   onPatchOfDependency |-> "none"]

\* the dependency rules the model draws the configuration from
RuleSet ==
  { DEFAULT_RULES,
    [onMajorOfDependency |-> "major", onMinorOfDependency |-> "minor",
     onPatchOfDependency |-> "patch"],
    [onMajorOfDependency |-> "patch", onMinorOfDependency |-> "none",
     onPatchOfDependency |-> "major"] }

getDependencyBumpType(dependencyBumpType, rules) ==
  CASE dependencyBumpType = "major" -> rules.onMajorOfDependency
    [] dependencyBumpType = "minor" -> rules.onMinorOfDependency
    [] dependencyBumpType = "patch" -> rules.onPatchOfDependency
    [] OTHER -> "none"

(***************************************************************************)
(* Version strings: sequences of one-character strings.                    *)
(***************************************************************************)
\* the characters of version strings in code-unit order
Ascii ==
  << "+", "-", ".", "0", "1", "2", "3", "4", "5", "6", "7", "8", "9",
     "A", "B", "C", "D", "E", "F", "G", "H", "I", "J", "K", "L", "M",
     "N", "O", "P", "Q", "R", "S", "T", "U", "V", "W", "X", "Y", "Z",
     "a", "b", "c", "d", "e", "f", "g", "h", "i", "j", "k", "l", "m",
     "n", "o", "p", "q", "r", "s", "t", "u", "v", "w", "x", "y", "z" >>

CodeOf(c) == CHOOSE i \in 1..Len(Ascii) : Ascii[i] = c

Digits == <<"0", "1", "2", "3", "4", "5", "6", "7", "8", "9">>

IsDigit(c) == \E i \in 1..Len(Digits) : Digits[i] = c

DigitValue(c) == (CHOOSE i \in 1..Len(Digits) : Digits[i] = c) - 1

\* /^[0-9]+$/
IsNumeric(str) == Len(str) > 0 /\ \A i \in 1..Len(str) : IsDigit(str[i])

\* Number(str) of a numeric string
RECURSIVE ToNumber(_)
ToNumber(str) ==
  IF Len(str) = 0 THEN 0
  ELSE 10 * ToNumber(SubSeq(str, 1, Len(str) - 1)) + DigitValue(str[Len(str)])

\* String(n) of a non-negative integer
RECURSIVE NumberToString(_)
NumberToString(n) ==
  IF n < 10 THEN <<Digits[n + 1]>>
  ELSE NumberToString(n \div 10) \o <<Digits[(n % 10) + 1]>>

\* str.indexOf(c) + 1, 0 when absent
IndexOf(str, c) ==
  IF \E i \in 1..Len(str) : str[i] = c
    THEN CHOOSE i \in 1..Len(str) : str[i] = c /\ \A j \in 1..(i - 1) : str[j] # c
    ELSE 0

\* str.split(c)
RECURSIVE Split(_, _)
Split(str, c) ==
  LET i == IndexOf(str, c)
  IN IF i = 0 THEN <<str>>
     ELSE <<SubSeq(str, 1, i - 1)>> \o Split(SubSeq(str, i + 1, Len(str)), c)

\* parts.join(c)
RECURSIVE Join(_, _)
Join(parts, c) ==
  IF Len(parts) = 0 THEN <<>>
  ELSE IF Len(parts) = 1 THEN parts[1]
  ELSE parts[1] \o <<c>> \o Join(Tail(parts), c)

\* str.endsWith(suffix)
EndsWith(str, suffix) ==
  /\ Len(str) >= Len(suffix)
  /\ SubSeq(str, Len(str) - Len(suffix) + 1, Len(str)) = suffix

\* a < b as strings (code-unit order)
RECURSIVE StringLess(_, _)
StringLess(a, b) ==
  IF Len(b) = 0 THEN FALSE
  ELSE IF Len(a) = 0 THEN TRUE
  ELSE IF a[1] = b[1] THEN StringLess(Tail(a), Tail(b))
  ELSE CodeOf(a[1]) < CodeOf(b[1])

(***************************************************************************)
(* node-semver, as used by src/semver/index.ts.                            *)
(***************************************************************************)
\* parseSemVer: MAJOR.MINOR.PATCH[-PRERELEASE][+BUILD]; raw keeps the input
parseSemVer(versionString) ==
  LET plus == IndexOf(versionString, "+")
      main == IF plus = 0 THEN versionString ELSE SubSeq(versionString, 1, plus - 1)
      dash == IndexOf(main, "-")
      core == Split(IF dash = 0 THEN main ELSE SubSeq(main, 1, dash - 1), ".")
  IN [major |-> ToNumber(core[1]), minor |-> ToNumber(core[2]), patch |-> ToNumber(core[3]),
      prerelease |-> IF dash = 0 THEN <<>>
                     ELSE Split(SubSeq(main, dash + 1, Len(main)), "."),
      build |-> IF plus = 0 THEN <<>>
                ELSE Split(SubSeq(versionString, plus + 1, Len(versionString)), "."),
      raw |-> versionString]

\* SemVer.format(): the version without build metadata
VersionOf(v) ==
  NumberToString(v.major) \o <<".">> \o NumberToString(v.minor) \o <<".">> \o NumberToString(v.patch)
    \o (IF Len(v.prerelease) = 0 THEN <<>> ELSE <<"-">> \o Join(v.prerelease, "."))

\* formatSemVer
formatSemVer(version) == version.raw

\* compareIdentifiers: numeric identifiers numerically and below the others
compareIdentifiers(a, b) ==
  IF IsNumeric(a) /\ IsNumeric(b)
    THEN (IF ToNumber(a) = ToNumber(b) THEN 0 ELSE IF ToNumber(a) < ToNumber(b) THEN -1 ELSE 1)
  ELSE IF a = b THEN 0
  ELSE IF IsNumeric(a) THEN -1
  ELSE IF IsNumeric(b) THEN 1
  ELSE IF StringLess(a, b) THEN -1 ELSE 1

\* SemVer.comparePre
RECURSIVE comparePreFrom(_, _, _)
comparePreFrom(a, b, i) ==
  IF i > Len(a) /\ i > Len(b) THEN 0
  ELSE IF i > Len(b) THEN 1
  ELSE IF i > Len(a) THEN -1
  ELSE IF compareIdentifiers(a[i], b[i]) = 0 THEN comparePreFrom(a, b, i + 1)
  ELSE compareIdentifiers(a[i], b[i])

comparePre(a, b) ==
  IF Len(a.prerelease) > 0 /\ Len(b.prerelease) = 0 THEN -1
  ELSE IF Len(a.prerelease) = 0 /\ Len(b.prerelease) > 0 THEN 1
  ELSE IF Len(a.prerelease) = 0 /\ Len(b.prerelease) = 0 THEN 0
  ELSE comparePreFrom(a.prerelease, b.prerelease, 1)

CompareNumbers(x, y) == IF x = y THEN 0 ELSE IF x < y THEN -1 ELSE 1

\* compareSemVer: -1, 0 or 1 by semantic-version precedence (build ignored)
compareSemVer(a, b) ==
  IF a.major # b.major THEN CompareNumbers(a.major, b.major)
  ELSE IF a.minor # b.minor THEN CompareNumbers(a.minor, b.minor)
  ELSE IF a.patch # b.patch THEN CompareNumbers(a.patch, b.patch)
  ELSE comparePre(a, b)

\* semver.inc(version, 'major' | 'minor' | 'patch'), as a version string
IncRelease(v, release) ==
  LET pre == Len(v.prerelease) > 0
      r == CASE release = "major" ->
                  [major |-> IF v.minor # 0 \/ v.patch # 0 \/ ~pre THEN v.major + 1 ELSE v.major,
                   minor |-> 0, patch |-> 0]
             [] release = "minor" ->
                  [major |-> v.major,
                   minor |-> IF v.patch # 0 \/ ~pre THEN v.minor + 1 ELSE v.minor,
                   patch |-> 0]
             [] release = "patch" ->
                  [major |-> v.major, minor |-> v.minor,
                   patch |-> IF ~pre THEN v.patch + 1 ELSE v.patch]
  IN NumberToString(r.major) \o <<".">> \o NumberToString(r.minor) \o <<".">> \o NumberToString(r.patch)

\* bumpSemVer without its 'none' guard
bumpSemVer_AlwaysIncrements(version, bumpType) ==
  parseSemVer(IncRelease(version, IF bumpType = "none" THEN "patch" ELSE bumpType))

\* bumpSemVer
bumpSemVer(version, bumpType) ==
  IF bumpType = "none" THEN version
  ELSE parseSemVer(IncRelease(version, bumpType))

SNAPSHOT_SUFFIX == <<"-", "S", "N", "A", "P", "S", "H", "O", "T">>

\* applyGradleSnapshot without the endsWith test
applyGradleSnapshot_AlwaysAppends(version) == version \o SNAPSHOT_SUFFIX

\* applyGradleSnapshot
applyGradleSnapshot(version) ==
  IF EndsWith(version, SNAPSHOT_SUFFIX) THEN version
  ELSE version \o SNAPSHOT_SUFFIX

(***************************************************************************)
(* bumpToPrerelease and addBuildMetadata (src/semver/index.ts), after      *)
(* their tests and declarations: semver.inc with the pre* release types.   *)
(***************************************************************************)
\* index of the last numeric identifier of a prerelease list, 0 when there is none
LastNumeric(pre) ==
  IF \E i \in 1..Len(pre) : IsNumeric(pre[i])
    THEN CHOOSE i \in 1..Len(pre) :
           IsNumeric(pre[i]) /\ \A j \in (i + 1)..Len(pre) : ~IsNumeric(pre[j])
    ELSE 0

\* semver.inc(version, 'pre', identifier) on the prerelease list
IncPre(pre, identifier) ==
  LET k == LastNumeric(pre)
      counted == IF Len(pre) = 0 THEN << <<"0">> >>
                 ELSE IF k = 0 THEN Append(pre, <<"0">>)
                 ELSE [pre EXCEPT ![k] = NumberToString(ToNumber(pre[k]) + 1)]
  IN IF compareIdentifiers(counted[1], identifier) = 0
       THEN (IF Len(counted) < 2 \/ ~IsNumeric(counted[2])
               THEN <<identifier, <<"0">> >> ELSE counted)
       ELSE <<identifier, <<"0">> >>

\* bumpToPrerelease: premajor / preminor / prepatch, and prerelease for 'none'
bumpToPrerelease(version, bumpType, prereleaseId) ==
  LET release == [version EXCEPT !.prerelease = <<>>]
      core == IF bumpType = "none"
                THEN (IF Len(version.prerelease) = 0
                        THEN IncRelease(version, "patch")
                        ELSE VersionOf(release))
                ELSE IncRelease(release, bumpType)
      pre == IF bumpType = "none" /\ Len(version.prerelease) > 0
               THEN IncPre(version.prerelease, prereleaseId)
               ELSE IncPre(<<>>, prereleaseId)
  IN parseSemVer(core \o <<"-">> \o Join(pre, "."))

\* addBuildMetadata: the version with '+<buildMetadata>' as its build part
addBuildMetadata(version, buildMetadata) ==
  parseSemVer(VersionOf(version) \o <<"+">> \o buildMetadata)

(***************************************************************************)
(* State.                                                                  *)
(***************************************************************************)
VARIABLES
  \* --- module graph and configuration (fixed during a run) ---
  affects,      \* module id -> its affectedProjects, in iteration order
  rules,        \* config.dependencyRules
  options,      \* the runner options that decide needsProcessing
  order,        \* the order of allModuleChanges (hierarchyManager.getModules())
  initial,      \* the decisions as handed to calculateCascadeEffects
  \* --- calculateCascadeEffects ---
  changes,      \* module id -> the ProcessingModuleChange (mutated in place)
  queue,        \* the worklist, holding references to the changes
  processed,    \* the processed set
  pc,           \* "cascade" while the while-loop runs, "done" after the return
  \* --- version computation of one decision (the loop body of run) ---
  fromVersion,  \* change.fromVersion, the SemVer parsed from disk
  change,       \* the decision's bumpType, reason and needsProcessing
  toVersion,    \* change.toVersion, a version string
  collected,    \* whether the decision was pushed to processedModuleChanges
  \* --- VersionManager ---
  pendingVersionUpdates,        \* module id -> staged SemVer
  pendingVersionStringUpdates,  \* module id -> staged version string
  written,      \* the batches handed to strategy.writeVersionUpdates, in order
  lastCall,     \* the last VersionManager call and whether it threw
  calls,        \* number of VersionManager calls made
  updateLog,    \* module id -> versions passed to updateVersion since the staged
                \* maps were last cleared
  \* --- MonorepoVersionRunner.run, from the decisions to the returned result ---
  diskVersion,  \* module id -> projectInfo.version, the SemVer read from disk
  processedModuleChanges,  \* the decisions that need processing, with toVersion
  effects,      \* the calls made to the outside (files, changelogs, git), in order
  result,       \* the RunnerResult
  \* --- the version stages applied one after another to a version string ---
  stageVersion, \* the version string the next stage is applied to
  stageTrail,   \* the stages applied so far: stage, argument, input and output
  \* --- calculateBumpFromCommits ---
  commits,      \* the commits of one module: type and breaking flag
  config,       \* the configuration: defaultBump and commitTypes
  commitsBump,  \* the bump type calculateBumpFromCommits returned
  \* --- maxBumpType on a growing list ---
  mergeInputs,  \* the bump types merged so far
  mergeResult,  \* maxBumpType of mergeInputs
  \* --- calculateCascadeEffects, bookkeeping ---
  pushCount     \* module id -> number of times its decision was pushed onto the queue

cascadeVars == <<affects, rules, order, initial, changes, queue, processed, pushCount>>

versionVars == <<fromVersion, change, toVersion, collected>>

vmVars == <<pendingVersionUpdates, pendingVersionStringUpdates, written, lastCall, calls,
            updateLog>>

runVars == <<diskVersion, processedModuleChanges, effects, result>>

stageVars == <<stageVersion, stageTrail>>

classifyVars == <<commits, config, commitsBump>>

mergeVars == <<mergeInputs, mergeResult>>

vars == <<cascadeVars, versionVars, vmVars, runVars, stageVars, classifyVars, mergeVars,
          options, pc>>

\* the value of the variables a specification does not use
Idle == "idle"

(***************************************************************************)
(* MonorepoVersionRunner.run: creation of the decisions.                   *)
(***************************************************************************)
\* InitialChange without the build-metadata branch
InitialChange_NoMetadataReason(bumpType, opts) ==
  IF bumpType # "none"
    THEN [bumpType |-> bumpType, reason |-> "commits", needsProcessing |-> TRUE]
  ELSE IF opts.prereleaseMode /\ opts.bumpUnchanged
    THEN [bumpType |-> bumpType, reason |-> "prerelease-unchanged", needsProcessing |-> TRUE]
  ELSE [bumpType |-> bumpType, reason |-> "unchanged", needsProcessing |-> FALSE]

\* the ProcessingModuleChange created for a module whose commits classify to bumpType
InitialChange(bumpType, opts) ==
  IF bumpType # "none"
    THEN [bumpType |-> bumpType, reason |-> "commits", needsProcessing |-> TRUE]
  ELSE IF opts.prereleaseMode /\ opts.bumpUnchanged
    THEN [bumpType |-> bumpType, reason |-> "prerelease-unchanged", needsProcessing |-> TRUE]
  ELSE IF opts.addBuildMetadata
    THEN [bumpType |-> bumpType, reason |-> "build-metadata", needsProcessing |-> TRUE]
  ELSE [bumpType |-> bumpType, reason |-> "unchanged", needsProcessing |-> FALSE]

(***************************************************************************)
(* calculateCascadeEffects.                                                *)
(***************************************************************************)
\* the guard of the skip at the head of the while-loop body
SkipCurrent(currentChange, id, done) ==
  id \in done \/ ~currentChange.needsProcessing \/ currentChange.bumpType = "none"

\* ShouldUpdate that holds for every candidate
ShouldUpdate_Always(existingChange, mergedBump) == TRUE

\* the condition under which a dependent's decision is rewritten and re-queued
ShouldUpdate(existingChange, mergedBump) ==
  mergedBump # existingChange.bumpType \/ ~existingChange.needsProcessing

\* ApplyCascade without the assignment of the reason
ApplyCascade_KeepsReason(existingChange, mergedBump) ==
  [existingChange EXCEPT !.bumpType = mergedBump, !.needsProcessing = TRUE]

\* ApplyCascade that also resets the version the decision started from
ApplyCascade_ResetsFromVersion(existingChange, mergedBump) ==
  [existingChange EXCEPT !.bumpType = mergedBump, !.reason = "cascade",
                         !.needsProcessing = TRUE, !.fromVersion = ""]

\* ApplyCascade that always raises the dependent to major
ApplyCascade_Escalates(existingChange, mergedBump) ==
  [existingChange EXCEPT !.bumpType = "major", !.reason = "cascade",
                         !.needsProcessing = TRUE]

\* the in-place update of a dependent's decision
ApplyCascade(existingChange, mergedBump) ==
  [existingChange EXCEPT !.bumpType = mergedBump, !.reason = "cascade",
                         !.needsProcessing = TRUE]

\* Dequeue that reads the head without removing it
Dequeue_Peek(q) == q

\* queue.shift(): the queue after its head has been taken
Dequeue(q) == Tail(q)

\* the for-loop over currentModuleInfo.affectedProjects; st = [changes, queue]
RECURSIVE ForEachDependent(_, _, _, _, _)
ForEachDependent(dependents, currentBump, done, rls, st) ==
  IF dependents = <<>> THEN st
  ELSE
    LET dependentName == Head(dependents)
        rest == Tail(dependents)
    IN IF dependentName \in done
         THEN ForEachDependent(rest, currentBump, done, rls, st)
       ELSE IF dependentName \notin DOMAIN st.changes
         THEN ForEachDependent(rest, currentBump, done, rls, st)
       ELSE
         LET existingChange == st.changes[dependentName]
             requiredBump == getDependencyBumpType(currentBump, rls)
         IN IF requiredBump = "none"
              THEN ForEachDependent(rest, currentBump, done, rls, st)
            ELSE
              LET mergedBump == maxBumpType(<<existingChange.bumpType, requiredBump>>)
              IN IF ShouldUpdate(existingChange, mergedBump)
                   THEN ForEachDependent(rest, currentBump, done, rls,
                          [changes |-> [st.changes EXCEPT ![dependentName] =
                                          ApplyCascade(existingChange, mergedBump)],
                           queue |-> Append(st.queue, dependentName)])
                   ELSE ForEachDependent(rest, currentBump, done, rls, st)

\* LoopBody without processed.add
LoopBody_ForgetsProcessed(aff, rls, st) ==
  LET id == Head(st.queue)
      currentChange == st.changes[id]
      q == Dequeue(st.queue)
  IN IF SkipCurrent(currentChange, id, st.processed)
       THEN [st EXCEPT !.queue = q]
     ELSE
       LET r == ForEachDependent(aff[id], currentChange.bumpType, st.processed, rls,
                                 [changes |-> st.changes, queue |-> q])
       IN [changes |-> r.changes, queue |-> r.queue, processed |-> st.processed]

\* one iteration of the while-loop; st = [changes, queue, processed]
LoopBody(aff, rls, st) ==
  LET id == Head(st.queue)
      currentChange == st.changes[id]
      q == Dequeue(st.queue)
  IN IF SkipCurrent(currentChange, id, st.processed)
       THEN [st EXCEPT !.queue = q]
     ELSE
       LET done == st.processed \cup {id}
           r == ForEachDependent(aff[id], currentChange.bumpType, done, rls,
                                 [changes |-> st.changes, queue |-> q])
       IN [changes |-> r.changes, queue |-> r.queue, processed |-> done]

(***************************************************************************)
(* Inputs of a run.                                                        *)
(***************************************************************************)
\* the sequences over S without repetition
RECURSIVE DistinctSeqs(_)
DistinctSeqs(S) ==
  {<<>>} \cup UNION { { <<x>> \o t : t \in DistinctSeqs(S \ {x}) } : x \in S }

\* the orders in which the modules can be listed
Orders(S) == { p \in DistinctSeqs(S) : Len(p) = Cardinality(S) }

\* the order in which discovery inserts module ids into the affectedProjects sets
DiscoveryOrder == <<"lib", "app", "util">>

\* iteration over a Set<string>: its members in insertion order
IterationOrder(S) == SelectSeq(DiscoveryOrder, LAMBDA x : x \in S)

RECURSIVE SumCard(_, _)
SumCard(f, S) ==
  IF S = {} THEN 0
  ELSE LET x == CHOOSE y \in S : TRUE IN Cardinality(f[x]) + SumCard(f, S \ {x})

\* the module graphs: every module's affected set, cycles and self-loops allowed
Graphs ==
  { [m \in Modules |-> IterationOrder(e[m])] :
      e \in { f \in [Modules -> SUBSET Modules] : SumCard(f, Modules) <= MaxEdges } }

\* the classifier outputs, one per module
BumpAssignments ==
  { b \in [Modules -> BumpTypes] : Cardinality({m \in Modules : b[m] # "none"}) <= MaxChanged }

\* the option combinations that decide needsProcessing and reason
CascadeOptions ==
  { [prereleaseMode |-> FALSE, bumpUnchanged |-> FALSE, addBuildMetadata |-> FALSE,
     gradleSnapshot |-> FALSE, adapter |-> "gradle"],
    [prereleaseMode |-> TRUE, bumpUnchanged |-> TRUE, addBuildMetadata |-> FALSE,
     gradleSnapshot |-> FALSE, adapter |-> "gradle"] }

InitCascade ==
  /\ affects \in Graphs
  /\ rules \in RuleSet
  /\ options \in CascadeOptions
  /\ order \in Orders(Modules)
  /\ \E b \in BumpAssignments :
       initial = [m \in Modules |-> InitialChange(b[m], options)]
  /\ changes = initial
  /\ queue = order
  /\ processed = {}
  /\ pushCount = [m \in Modules |-> 0]
  /\ pc = "cascade"
  /\ fromVersion = Idle /\ change = Idle /\ toVersion = Idle /\ collected = Idle
  /\ pendingVersionUpdates = Idle /\ pendingVersionStringUpdates = Idle
  /\ written = Idle /\ lastCall = Idle /\ calls = Idle /\ updateLog = Idle
  /\ diskVersion = Idle /\ processedModuleChanges = Idle /\ effects = Idle /\ result = Idle
  /\ stageVersion = Idle /\ stageTrail = Idle
  /\ commits = Idle /\ config = Idle /\ commitsBump = Idle
  /\ mergeInputs = Idle /\ mergeResult = Idle

CascadeState == [changes |-> changes, queue |-> queue, processed |-> processed]

\* the number of queue.push calls one iteration made for module m: the entries of the
\* queue after the iteration that lie behind those it held after the shift
PushesOf(m, before, after) ==
  Cardinality({ i \in (Len(Dequeue(before)) + 1)..Len(after) : after[i] = m })

\* a pop that is skipped (already processed, not to be processed, or bump none)
CascadeSkip ==
  /\ pc = "cascade"
  /\ queue # <<>>
  /\ SkipCurrent(changes[Head(queue)], Head(queue), processed)
  /\ queue' = LoopBody(affects, rules, CascadeState).queue
  /\ UNCHANGED <<affects, rules, options, order, initial, changes, processed, pushCount, pc,
                 versionVars, vmVars, runVars, stageVars, classifyVars, mergeVars>>

\* a pop whose module is processed: its bump is pushed onto its affected modules
CascadeProcess ==
  /\ pc = "cascade"
  /\ queue # <<>>
  /\ ~SkipCurrent(changes[Head(queue)], Head(queue), processed)
  /\ Head(queue) \in DOMAIN affects
  /\ \E st \in {LoopBody(affects, rules, CascadeState)} :
       /\ changes' = st.changes
       /\ queue' = st.queue
       /\ processed' = st.processed
  /\ pushCount' = [m \in DOMAIN pushCount |-> pushCount[m] + PushesOf(m, queue, queue')]
  /\ UNCHANGED <<affects, rules, options, order, initial, pc, versionVars, vmVars, runVars,
                 stageVars, classifyVars, mergeVars>>

\* the worklist is empty: the function returns allModuleChanges
CascadeReturn ==
  /\ pc = "cascade"
  /\ queue = <<>>
  /\ pc' = "done"
  /\ UNCHANGED <<affects, rules, options, order, initial, changes, queue, processed, pushCount,
                 versionVars, vmVars, runVars, stageVars, classifyVars, mergeVars>>

NextCascade == CascadeSkip \/ CascadeProcess \/ CascadeReturn

SpecCascade == InitCascade /\ [][NextCascade]_vars

\* calculateCascadeEffects run to its return on the decisions init listed in order ord
RECURSIVE RunLoop(_, _, _)
RunLoop(aff, rls, st) ==
  IF st.queue = <<>> THEN st ELSE RunLoop(aff, rls, LoopBody(aff, rls, st))

calculateCascadeEffects(aff, rls, init, ord) ==
  RunLoop(aff, rls, [changes |-> init, queue |-> ord, processed |-> {}]).changes

(***************************************************************************)
(* Cascade propagation: properties.                                        *)
(***************************************************************************)
BumpOf(chs) == [m \in Modules |-> chs[m].bumpType]

\* the modules that have m in their affected set
Upstream(m) == { u \in Modules : \E i \in 1..Len(affects[u]) : affects[u][i] = m }

\* C1: the final bumpType of every module is the same for every order of the
\* decisions in the input array.
C1_OrderIndependent ==
  pc = "done" =>
    \A o \in Orders(Modules) :
      BumpOf(calculateCascadeEffects(affects, rules, initial, o)) = BumpOf(changes)

\* one round of b(m) = max(initial(m), max over upstream u of dependencyRule(b(u)))
RECURSIVE MaxOver(_, _)
MaxOver(b, S) ==
  IF S = {} THEN "none"
  ELSE LET u == CHOOSE x \in S : TRUE
       IN MaxOf2(MaxOver(b, S \ {u}), getDependencyBumpType(b[u], rules))

PropagateRound(b) ==
  [m \in Modules |-> MaxOf2(initial[m].bumpType, MaxOver(b, Upstream(m)))]

RECURSIVE Iterate(_, _)
Iterate(b, n) == IF n = 0 THEN b ELSE Iterate(PropagateRound(b), n - 1)

\* the least fixed point, reached by iterating from the initial bump types; every
\* round that is not yet stable raises some module, so 3 rounds per module suffice
LeastFixedPoint == Iterate(BumpOf(initial), 3 * Cardinality(Modules))

\* C2: on return every module's bumpType is the least fixed point of
\* b(m) = max(initial(m), max over upstream u of dependencyRule(b(u))).
C2_LeastFixedPoint ==
  (pc = "done" /\ PropagateRound(LeastFixedPoint) = LeastFixedPoint)
    => BumpOf(changes) = LeastFixedPoint

\* C3: when two upstream modules cascade two different candidates onto the same
\* downstream module, the downstream module ends with at least the higher one.
C3_HigherCandidateWins ==
  pc = "done" =>
    \A d \in Modules : \A u1, u2 \in Upstream(d) :
      LET c1 == getDependencyBumpType(changes[u1].bumpType, rules)
          c2 == getDependencyBumpType(changes[u2].bumpType, rules)
      IN (u1 # u2 /\ u1 # d /\ u2 # d /\ c1 # c2 /\ c1 # "none" /\ c2 # "none")
           => priority[changes[d].bumpType] >= priority[MaxOf2(c1, c2)]

\* the run keeps executing the loop until it returns
LiveCascade == SpecCascade /\ WF_vars(NextCascade)

\* some module reaches itself along affects edges
RECURSIVE Reach(_, _)
Reach(S, n) ==
  IF n = 0 THEN S
  ELSE Reach(S \cup { d \in Modules : \E u \in S : u \in Upstream(d) }, n - 1)

OnCycle(m) ==
  m \in Reach({ d \in Modules : m \in Upstream(d) }, Cardinality(Modules))

\* C4: the propagation terminates (the worklist drains and the function returns),
\* for every graph, cycles and self-loops included.
C4_Terminates == <>(pc = "done")

\* a propagation over a cyclic graph that processed a module of the cycle has returned
C4_Witness ==
  pc = "done" /\ \E m \in Modules : OnCycle(m) /\ m \in processed /\ changes # initial

\* C5: a module app without commits whose only upstream module is lib ends with
\* bumpType dependencyRule(final bumpType of lib), reason cascade and marked for
\* writing, whenever that rule value is not none, for every input order.
C5_SingleUpstreamCascade ==
  pc = "done" =>
    \A l, a \in Modules :
      LET r == getDependencyBumpType(changes[l].bumpType, rules)
      IN (/\ initial[a].bumpType = "none"
          /\ ~initial[a].needsProcessing
          /\ Upstream(a) = {l}
          /\ r # "none")
         => changes[a] = [bumpType |-> r, reason |-> "cascade", needsProcessing |-> TRUE]

\* app is listed before lib and has been raised by lib's cascade
C5_Witness ==
  /\ pc = "done"
  /\ \E l, a \in Modules :
       /\ l # a /\ Upstream(a) = {l}
       /\ initial[a].bumpType = "none" /\ ~initial[a].needsProcessing
       /\ changes[a].reason = "cascade" /\ changes[a].bumpType # "none"
       /\ \E i, j \in 1..Len(order) : i < j /\ order[i] = a /\ order[j] = l

(***************************************************************************)
(* MonorepoVersionRunner.run: the version of one decision.                 *)
(***************************************************************************)
\* getCurrentCommitShortSha: the short SHA of the run
SHORT_SHA == <<"a", "1", "b", "2", "c", "3", "d">>

\* options.prereleaseId
PRERELEASE_ID == <<"a", "l", "p", "h", "a">>

\* BaseVersion with the plain bump also in prerelease mode
BaseVersion_PlainBump(chg, from, opts) ==
  IF ~chg.needsProcessing THEN from
  ELSE IF chg.bumpType # "none" THEN bumpSemVer(from, chg.bumpType)
  ELSE IF chg.reason = "prerelease-unchanged"
    THEN bumpToPrerelease(from, "none", PRERELEASE_ID)
  ELSE from

\* BaseVersion without the branch of the unchanged modules
BaseVersion_SkipsUnchanged(chg, from, opts) ==
  IF ~chg.needsProcessing THEN from
  ELSE IF chg.bumpType # "none" /\ opts.prereleaseMode
    THEN bumpToPrerelease(from, chg.bumpType, PRERELEASE_ID)
  ELSE IF chg.bumpType # "none" /\ ~opts.prereleaseMode
    THEN bumpSemVer(from, chg.bumpType)
  ELSE from

\* scenarios 1 to 4 of the loop body: the version after the bump
BaseVersion(chg, from, opts) ==
  IF ~chg.needsProcessing THEN from
  ELSE IF chg.bumpType # "none" /\ opts.prereleaseMode
    THEN bumpToPrerelease(from, chg.bumpType, PRERELEASE_ID)
  ELSE IF chg.bumpType # "none" /\ ~opts.prereleaseMode
    THEN bumpSemVer(from, chg.bumpType)
  ELSE IF chg.reason = "prerelease-unchanged"
    THEN bumpToPrerelease(from, "none", PRERELEASE_ID)
  ELSE from

\* 'if (this.options.addBuildMetadata && shortSha)' inside the needsProcessing branch
WithBuildMetadata(chg, version, opts) ==
  IF chg.needsProcessing /\ opts.addBuildMetadata
    THEN addBuildMetadata(version, SHORT_SHA) ELSE version

\* the loop body without the needsProcessing flip of the snapshot branch
ComputedVersion_NoSnapshotFlip(chg, from, opts) ==
  LET originalVersion == formatSemVer(WithBuildMetadata(chg, BaseVersion(chg, from, opts), opts))
      snapshot == opts.gradleSnapshot /\ opts.adapter = "gradle"
  IN [toVersion |-> IF snapshot THEN applyGradleSnapshot(originalVersion) ELSE originalVersion,
      change |-> chg]

\* the body of 'for (const change of processingModuleChanges)' up to the push:
\* the new toVersion and the decision with its needsProcessing and reason
ComputedVersion(chg, from, opts) ==
  LET newVersion == WithBuildMetadata(chg, BaseVersion(chg, from, opts), opts)
      originalVersion == formatSemVer(newVersion)
      snapshot == opts.gradleSnapshot /\ opts.adapter = "gradle"
      to == IF snapshot THEN applyGradleSnapshot(originalVersion) ELSE originalVersion
  IN [toVersion |-> to,
      change |-> IF snapshot /\ ~chg.needsProcessing /\ to # originalVersion
                   THEN [chg EXCEPT !.needsProcessing = TRUE, !.reason = "gradle-snapshot"]
                   ELSE chg]

\* the version strings a module may carry on disk
Parts == (0..MaxPart) \cup {9}

Counters == (0..MaxCounter) \cup {9}

Cores ==
  { NumberToString(a) \o <<".">> \o NumberToString(b) \o <<".">> \o NumberToString(c) :
      a \in Parts, b \in Parts, c \in Parts }

Suffixes ==
  { <<>>, SNAPSHOT_SUFFIX }
    \cup { <<"-">> \o PRERELEASE_ID \o <<".">> \o NumberToString(n) : n \in Counters }
    \cup { <<"-">> \o PRERELEASE_ID \o <<".">> \o NumberToString(n) \o SNAPSHOT_SUFFIX :
             n \in Counters }
    \cup { <<"-", "b", "e", "t", "a", ".", "0">> }

DiskVersions == { c \o x : c \in Cores, x \in Suffixes }

VersionOptions ==
  [prereleaseMode : BOOLEAN, bumpUnchanged : BOOLEAN, addBuildMetadata : BOOLEAN,
   gradleSnapshot : BOOLEAN, adapter : {"gradle"}]

\* the decision of a module after classification and cascade: its commits give
\* bump b and the cascade asks for c (none: no upstream module cascaded onto it)
DecisionAfterCascade(b, c, opts) ==
  LET first == InitialChange(b, opts)
      mergedBump == maxBumpType(<<first.bumpType, c>>)
  IN IF c # "none" /\ ShouldUpdate(first, mergedBump)
       THEN ApplyCascade(first, mergedBump) ELSE first

InitVersion ==
  /\ options \in VersionOptions
  /\ fromVersion \in { parseSemVer(v) : v \in DiskVersions }
  /\ \E b, c \in BumpTypes : change = DecisionAfterCascade(b, c, options)
  /\ toVersion = <<>>
  /\ collected = FALSE
  /\ pc = "compute"
  /\ affects = Idle /\ rules = Idle /\ order = Idle /\ initial = Idle
  /\ changes = Idle /\ queue = Idle /\ processed = Idle /\ pushCount = Idle
  /\ pendingVersionUpdates = Idle /\ pendingVersionStringUpdates = Idle
  /\ written = Idle /\ lastCall = Idle /\ calls = Idle /\ updateLog = Idle
  /\ diskVersion = Idle /\ processedModuleChanges = Idle /\ effects = Idle /\ result = Idle
  /\ stageVersion = Idle /\ stageTrail = Idle
  /\ commits = Idle /\ config = Idle /\ commitsBump = Idle
  /\ mergeInputs = Idle /\ mergeResult = Idle

\* one iteration of the version loop of run
ComputeVersion ==
  /\ pc = "compute"
  /\ LET r == ComputedVersion(change, fromVersion, options)
     IN /\ toVersion' = r.toVersion
        /\ change' = r.change
        /\ collected' = r.change.needsProcessing
  /\ pc' = "computed"
  /\ UNCHANGED <<cascadeVars, vmVars, runVars, stageVars, classifyVars, mergeVars, options,
               fromVersion>>

NextVersion == ComputeVersion

SpecVersion == InitVersion /\ [][NextVersion]_vars

\* C6: a decision whose bumpType is not none gets a toVersion strictly greater
\* than its fromVersion under semantic-version precedence, in every mode.
C6_Monotonic ==
  (pc = "computed" /\ change.bumpType # "none")
    => compareSemVer(parseSemVer(toVersion), fromVersion) = 1

\* str starts with prefix
StartsWith(str, prefix) ==
  Len(str) >= Len(prefix) /\ SubSeq(str, 1, Len(prefix)) = prefix

\* M.m.p as a string
CoreString(major, minor, patch) ==
  NumberToString(major) \o <<".">> \o NumberToString(minor) \o <<".">> \o NumberToString(patch)

\* the standard increment of the numeric core of v, any suffix discarded
StandardIncrement(v, b) ==
  CASE b = "major" -> CoreString(v.major + 1, 0, 0)
    [] b = "minor" -> CoreString(v.major, v.minor + 1, 0)
    [] b = "patch" -> CoreString(v.major, v.minor, v.patch + 1)

\* only build metadata is enabled
OnlyBuildMetadata ==
  options.addBuildMetadata /\ ~options.prereleaseMode /\ ~options.gradleSnapshot

\* neither build metadata nor snapshot mode is enabled
NoSuffixMode == ~options.addBuildMetadata /\ ~options.gradleSnapshot

\* C13: with build metadata enabled and no other mode every module is marked for
\* writing, and a module without a bump gets its fromVersion followed by '+' and
\* the metadata value, the numeric core unchanged.
C13_BuildMetadataOnly ==
  (pc = "computed" /\ OnlyBuildMetadata) =>
    /\ change.needsProcessing /\ collected
    /\ change.bumpType = "none" =>
         /\ toVersion = formatSemVer(fromVersion) \o <<"+">> \o SHORT_SHA
         /\ change.reason = "build-metadata"
         /\ LET to == parseSemVer(toVersion)
            IN /\ to.major = fromVersion.major /\ to.minor = fromVersion.minor
               /\ to.patch = fromVersion.patch /\ to.prerelease = fromVersion.prerelease

\* a module at 1.0.0 without commits got 1.0.0+a1b2c3d
C13_Witness ==
  /\ pc = "computed" /\ OnlyBuildMetadata
  /\ change.bumpType = "none" /\ collected
  /\ formatSemVer(fromVersion) = <<"1", ".", "0", ".", "0">>
  /\ toVersion = <<"1", ".", "0", ".", "0", "+">> \o SHORT_SHA

\* C15: when snapshot and build metadata are both enabled the build metadata is
\* appended on top of the snapshot-suffixed version: it is the last component
\* of toVersion and the snapshot suffix comes before it.
C15_MetadataAfterSnapshot ==
  (pc = "computed" /\ options.gradleSnapshot /\ options.addBuildMetadata) =>
    /\ EndsWith(toVersion, <<"+">> \o SHORT_SHA)
    /\ EndsWith(SubSeq(toVersion, 1, Len(toVersion) - Len(SHORT_SHA) - 1), SNAPSHOT_SUFFIX)

\* C18: in pre-release mode a module at a release version with bumpType patch,
\* minor or major gets the standard increment of its core followed by '-id.0',
\* whether the bump came from commits or from cascade.
C18_PrereleaseFromRelease ==
  (pc = "computed" /\ options.prereleaseMode /\ Len(fromVersion.prerelease) = 0
     /\ change.bumpType # "none") =>
    LET expected == StandardIncrement(fromVersion, change.bumpType)
                      \o <<"-">> \o PRERELEASE_ID \o <<".", "0">>
    IN /\ change.reason \in {"commits", "cascade"}
       /\ StartsWith(toVersion, expected)
       /\ NoSuffixMode => toVersion = expected

\* a module at 1.0.1 raised to patch by cascade got 1.0.2-alpha.0
C18_Witness ==
  /\ pc = "computed" /\ options.prereleaseMode /\ NoSuffixMode
  /\ change.reason = "cascade" /\ change.bumpType = "patch"
  /\ formatSemVer(fromVersion) = <<"1", ".", "0", ".", "1">>
  /\ toVersion = <<"1", ".", "0", ".", "2", "-">> \o PRERELEASE_ID \o <<".", "0">>

\* the version C19 expects for an unchanged module at version v
ExpectedUnchanged(v) ==
  IF Len(v.prerelease) = 0
    THEN CoreString(v.major, v.minor, v.patch + 1) \o <<"-">> \o PRERELEASE_ID \o <<".", "0">>
  ELSE IF v.prerelease[1] # PRERELEASE_ID
    THEN CoreString(v.major, v.minor, v.patch) \o <<"-">> \o PRERELEASE_ID \o <<".", "0">>
  ELSE CoreString(v.major, v.minor, v.patch) \o <<"-">> \o PRERELEASE_ID \o <<".">>
         \o NumberToString(ToNumber(v.prerelease[2]) + 1)

\* v is a release, or carries another identifier, or the identifier and a counter
CoveredByC19(v) ==
  \/ Len(v.prerelease) = 0
  \/ v.prerelease[1] # PRERELEASE_ID
  \/ (Len(v.prerelease) = 2 /\ IsNumeric(v.prerelease[2]))

StageInputs == DiskVersions \cup { v \o <<"+">> \o SHORT_SHA : v \in DiskVersions }

\* the build-metadata stage as a plain string append
BuildMetadataStage_Appends(version) == version \o <<"+">> \o SHORT_SHA

\* the build-metadata stage on a version string
BuildMetadataStage(version) == formatSemVer(addBuildMetadata(parseSemVer(version), SHORT_SHA))

\* the plain bump on a version string
BumpStage(version, bumpType) == formatSemVer(bumpSemVer(parseSemVer(version), bumpType))

Applied(stage, arg, output) ==
  [stage |-> stage, arg |-> arg, input |-> stageVersion, output |-> output]

InitStages ==
  /\ stageVersion \in StageInputs
  /\ stageTrail = <<>>
  /\ pc = "stages"
  /\ options = Idle
  /\ affects = Idle /\ rules = Idle /\ order = Idle /\ initial = Idle
  /\ changes = Idle /\ queue = Idle /\ processed = Idle /\ pushCount = Idle
  /\ fromVersion = Idle /\ change = Idle /\ toVersion = Idle /\ collected = Idle
  /\ pendingVersionUpdates = Idle /\ pendingVersionStringUpdates = Idle
  /\ written = Idle /\ lastCall = Idle /\ calls = Idle /\ updateLog = Idle
  /\ diskVersion = Idle /\ processedModuleChanges = Idle /\ effects = Idle /\ result = Idle
  /\ commits = Idle /\ config = Idle /\ commitsBump = Idle
  /\ mergeInputs = Idle /\ mergeResult = Idle

StagesFrame ==
  UNCHANGED <<cascadeVars, versionVars, vmVars, runVars, classifyVars, mergeVars, options, pc>>

\* applyGradleSnapshot(version)
ApplySnapshot ==
  /\ pc = "stages" /\ Len(stageTrail) < MaxStages
  /\ stageVersion' = applyGradleSnapshot(stageVersion)
  /\ stageTrail' = Append(stageTrail, Applied("snapshot", "", stageVersion'))
  /\ StagesFrame

\* formatSemVer(addBuildMetadata(version, shortSha))
ApplyBuildMetadata ==
  /\ pc = "stages" /\ Len(stageTrail) < MaxStages
  /\ stageVersion' = BuildMetadataStage(stageVersion)
  /\ stageTrail' = Append(stageTrail, Applied("metadata", "", stageVersion'))
  /\ StagesFrame

\* formatSemVer(bumpSemVer(version, bumpType))
ApplyBump ==
  /\ pc = "stages" /\ Len(stageTrail) < MaxStages
  /\ \E bumpType \in BumpTypes :
       /\ stageVersion' = BumpStage(stageVersion, bumpType)
       /\ stageTrail' = Append(stageTrail, Applied("bump", bumpType, stageVersion'))
  /\ StagesFrame

NextStages == ApplySnapshot \/ ApplyBuildMetadata \/ ApplyBump

SpecStages == InitStages /\ [][NextStages]_vars

\* C16: applying the snapshot suffix twice gives what applying it once gives,
\* and a version already ending in -SNAPSHOT is returned unchanged.
C16_SnapshotIdempotent ==
  \A i \in 1..Len(stageTrail) :
    stageTrail[i].stage = "snapshot" =>
      /\ EndsWith(stageTrail[i].output, SNAPSHOT_SUFFIX)
      /\ EndsWith(stageTrail[i].input, SNAPSHOT_SUFFIX)
           => stageTrail[i].output = stageTrail[i].input
      /\ (i > 1 /\ stageTrail[i - 1].stage = "snapshot")
           => stageTrail[i].output = stageTrail[i - 1].output

\* the suffix was added by one application and left alone by the next
C16_Witness ==
  /\ Len(stageTrail) = 2
  /\ stageTrail[1].stage = "snapshot" /\ stageTrail[2].stage = "snapshot"
  /\ stageTrail[1].output # stageTrail[1].input
  /\ stageTrail[2].output = stageTrail[1].output

C20_StandardIncrement ==
  \A i \in 1..Len(stageTrail) :
    stageTrail[i].stage = "bump" =>
      IF stageTrail[i].arg = "none"
        THEN stageTrail[i].output = stageTrail[i].input
        ELSE stageTrail[i].output
               = StandardIncrement(parseSemVer(stageTrail[i].input), stageTrail[i].arg)

(***************************************************************************)
(* VersionManager (src/adapters/versionManager.ts).                        *)
(***************************************************************************)
\* a module id that is not in the hierarchy
UnknownModule == "ghost"

\* hasModule that finds every module id
hasModule_Always(moduleId) == TRUE

\* HierarchyModuleManager.hasModule
hasModule(moduleId) == moduleId \in Modules

\* new Map()
EmptyMap == <<>>

MapSet_KeepsFirst(map, key, value) ==
  [k \in (DOMAIN map) \cup {key} |-> IF k \in DOMAIN map THEN map[k] ELSE value]

\* Map.set
MapSet(map, key, value) ==
  [k \in (DOMAIN map) \cup {key} |-> IF k = key THEN value ELSE map[k]]

\* hasPendingUpdates
hasPendingUpdates(semvers, strings) ==
  Cardinality(DOMAIN semvers) > 0 \/ Cardinality(DOMAIN strings) > 0

\* commit: the first loop, moduleVersions.set(moduleId, formatSemVer(newVersion))
FormattedUpdates(semvers) == [k \in DOMAIN semvers |-> formatSemVer(semvers[k])]

\* commit: the second loop, moduleVersions.set(moduleId, versionString)
StringUpdatesOver(moduleVersions, strings) ==
  [k \in (DOMAIN moduleVersions) \cup (DOMAIN strings) |->
     IF k \in DOMAIN strings THEN strings[k] ELSE moduleVersions[k]]

CommitBatch_SemVersOnly(semvers, strings) == FormattedUpdates(semvers)

\* commit: the map handed to strategy.writeVersionUpdates
CommitBatch(semvers, strings) == StringUpdatesOver(FormattedUpdates(semvers), strings)

AfterWrite_ClearsFirst(map, writeOk) == EmptyMap

AfterWrite_KeepsStaged(map, writeOk) == map

\* commit: a staged map after the write; clear() runs only when the write resolved
AfterWrite(map, writeOk) == IF writeOk THEN EmptyMap ELSE map

\* the versions the runner stages
StagedVersions ==
  { parseSemVer(<<"1", ".", "2", ".", "4">>), parseSemVer(<<"2", ".", "0", ".", "0">>) }

StagedVersionStrings ==
  { <<"1", ".", "2", ".", "4", "+">> \o SHORT_SHA, <<"2", ".", "0", ".", "0">> \o SNAPSHOT_SUFFIX }

InitVM ==
  /\ pendingVersionUpdates = EmptyMap
  /\ pendingVersionStringUpdates = EmptyMap
  /\ written = <<>>
  /\ lastCall = [op |-> "new", threw |-> FALSE, write |-> "none"]
  /\ calls = 0
  /\ updateLog = [m \in Modules |-> <<>>]
  /\ pc = "staging"
  /\ options = Idle
  /\ affects = Idle /\ rules = Idle /\ order = Idle /\ initial = Idle
  /\ changes = Idle /\ queue = Idle /\ processed = Idle /\ pushCount = Idle
  /\ fromVersion = Idle /\ change = Idle /\ toVersion = Idle /\ collected = Idle
  /\ diskVersion = Idle /\ processedModuleChanges = Idle /\ effects = Idle /\ result = Idle
  /\ stageVersion = Idle /\ stageTrail = Idle
  /\ commits = Idle /\ config = Idle /\ commitsBump = Idle
  /\ mergeInputs = Idle /\ mergeResult = Idle

VMFrame ==
  UNCHANGED <<cascadeVars, versionVars, runVars, stageVars, classifyVars, mergeVars, options, pc>>

\* updateVersion(moduleId, newVersion) for a module of the hierarchy
UpdateVersion ==
  /\ pc = "staging" /\ calls < MaxCalls
  /\ \E moduleId \in Modules \cup {UnknownModule}, newVersion \in StagedVersions :
       /\ hasModule(moduleId)
       /\ pendingVersionUpdates' = MapSet(pendingVersionUpdates, moduleId, newVersion)
       /\ updateLog' = [updateLog EXCEPT ![moduleId] = Append(@, newVersion)]
  /\ lastCall' = [op |-> "updateVersion", threw |-> FALSE, write |-> "none"]
  /\ calls' = calls + 1
  /\ UNCHANGED <<pendingVersionStringUpdates, written>>
  /\ VMFrame

\* updateVersionString(moduleId, versionString) for a module of the hierarchy
UpdateVersionString ==
  /\ pc = "staging" /\ calls < MaxCalls
  /\ \E moduleId \in Modules \cup {UnknownModule}, versionString \in StagedVersionStrings :
       /\ hasModule(moduleId)
       /\ pendingVersionStringUpdates' =
            MapSet(pendingVersionStringUpdates, moduleId, versionString)
  /\ lastCall' = [op |-> "updateVersionString", threw |-> FALSE, write |-> "none"]
  /\ calls' = calls + 1
  /\ UNCHANGED <<pendingVersionUpdates, written, updateLog>>
  /\ VMFrame

\* updateVersion or updateVersionString for an unknown module id: throws
UpdateUnknown ==
  /\ pc = "staging" /\ calls < MaxCalls
  /\ ~hasModule(UnknownModule)
  /\ \E op \in {"updateVersion", "updateVersionString"} :
       lastCall' = [op |-> op, threw |-> TRUE, write |-> "none"]
  /\ calls' = calls + 1
  /\ UNCHANGED <<pendingVersionUpdates, pendingVersionStringUpdates, written, updateLog>>
  /\ VMFrame

\* commit() with nothing staged: returns at once
CommitNothing ==
  /\ pc = "staging" /\ calls < MaxCalls
  /\ ~hasPendingUpdates(pendingVersionUpdates, pendingVersionStringUpdates)
  /\ lastCall' = [op |-> "commit", threw |-> FALSE, write |-> "none"]
  /\ calls' = calls + 1
  /\ UNCHANGED <<pendingVersionUpdates, pendingVersionStringUpdates, written, updateLog>>
  /\ VMFrame

\* commit() with staged updates; the write-back collaborator resolves or rejects
CommitWrite ==
  /\ pc = "staging" /\ calls < MaxCalls
  /\ hasPendingUpdates(pendingVersionUpdates, pendingVersionStringUpdates)
  /\ written' = Append(written, CommitBatch(pendingVersionUpdates, pendingVersionStringUpdates))
  /\ \E writeOk \in BOOLEAN :
       /\ pendingVersionUpdates' = AfterWrite(pendingVersionUpdates, writeOk)
       /\ pendingVersionStringUpdates' = AfterWrite(pendingVersionStringUpdates, writeOk)
       /\ lastCall' = [op |-> "commit", threw |-> ~writeOk,
                        write |-> IF writeOk THEN "resolved" ELSE "rejected"]
       /\ updateLog' = IF writeOk THEN [m \in Modules |-> <<>>] ELSE updateLog
  /\ calls' = calls + 1
  /\ VMFrame

\* clearPendingUpdates()
ClearPendingUpdates ==
  /\ pc = "staging" /\ calls < MaxCalls
  /\ pendingVersionUpdates' = EmptyMap
  /\ pendingVersionStringUpdates' = EmptyMap
  /\ updateLog' = [m \in Modules |-> <<>>]
  /\ lastCall' = [op |-> "clearPendingUpdates", threw |-> FALSE, write |-> "none"]
  /\ calls' = calls + 1
  /\ UNCHANGED written
  /\ VMFrame

NextVM ==
  \/ UpdateVersion \/ UpdateVersionString \/ UpdateUnknown
  \/ CommitNothing \/ CommitWrite \/ ClearPendingUpdates

SpecVM == InitVM /\ [][NextVM]_vars

(***************************************************************************)
(* Claims about VersionManager.                                            *)
(***************************************************************************)
\* the step is one VersionManager call
IsCall == calls' = calls + 1

\* the step is a call of commit()
IsCommit == IsCall /\ lastCall'.op = "commit"

\* batch holds exactly the staged entries: every staged module, nothing else
IsStagedBatch(batch, semvers, strings) ==
  /\ DOMAIN batch = (DOMAIN semvers) \cup (DOMAIN strings)
  /\ \A m \in DOMAIN batch :
       \/ (m \in DOMAIN strings /\ batch[m] = strings[m])
       \/ (m \in DOMAIN semvers /\ batch[m] = semvers[m].raw)

\* C7: when the write-back collaborator fails during commit(), the error reaches
\* the caller, both staged maps are left as they were, and committing again
\* would hand over the identical batch.
C7_CommitFailureKeepsStaged ==
  [][ (IsCommit /\ lastCall'.write = "rejected") =>
        /\ lastCall'.threw
        /\ pendingVersionUpdates' = pendingVersionUpdates
        /\ pendingVersionStringUpdates' = pendingVersionStringUpdates
        /\ hasPendingUpdates(pendingVersionUpdates', pendingVersionStringUpdates')
        /\ CommitBatch(pendingVersionUpdates', pendingVersionStringUpdates')
             = written'[Len(written')] ]_vars

\* a failed commit was retried and failed again with the same batch
C7_Witness ==
  /\ calls = 3 /\ Len(written) = 2
  /\ lastCall.op = "commit" /\ lastCall.write = "rejected" /\ lastCall.threw
  /\ written[1] = written[2]
  /\ hasPendingUpdates(pendingVersionUpdates, pendingVersionStringUpdates)

\* C8: after a commit() whose write-back succeeded the staged maps are empty and
\* hasPendingUpdates() is false, and a commit() called right after it hands
\* nothing to the write-back collaborator.
C8_CommittedIsEmpty ==
  [][ IsCall =>
        /\ (lastCall'.write = "resolved") =>
             /\ ~lastCall'.threw
             /\ pendingVersionUpdates' = EmptyMap
             /\ pendingVersionStringUpdates' = EmptyMap
             /\ ~hasPendingUpdates(pendingVersionUpdates', pendingVersionStringUpdates')
        /\ (lastCall.write = "resolved" /\ lastCall'.op = "commit") =>
             /\ written' = written
             /\ lastCall'.write = "none" /\ ~lastCall'.threw ]_vars

\* one update, a successful commit, and a second commit that wrote nothing
C8_Witness ==
  /\ calls = 3 /\ Len(written) = 1
  /\ lastCall = [op |-> "commit", threw |-> FALSE, write |-> "none"]
  /\ ~hasPendingUpdates(pendingVersionUpdates, pendingVersionStringUpdates)

\* C9 as stated: every call of commit() hands exactly one batch to the write-back
\* collaborator, and that batch holds exactly the staged entries.
C9_EveryCommitWritesOnce ==
  [][ IsCommit =>
        /\ Len(written') = Len(written) + 1
        /\ SubSeq(written', 1, Len(written)) = written
        /\ IsStagedBatch(written'[Len(written')], pendingVersionUpdates,
                         pendingVersionStringUpdates) ]_vars

\* C9 amended: a commit() with staged entries hands exactly one batch to the
\* write-back collaborator, holding exactly the staged entries; a commit() with
\* nothing staged does not invoke it.
C9_CommitWritesOnceWhenStaged ==
  [][ IsCommit =>
        IF hasPendingUpdates(pendingVersionUpdates, pendingVersionStringUpdates)
          THEN /\ Len(written') = Len(written) + 1
               /\ SubSeq(written', 1, Len(written)) = written
               /\ IsStagedBatch(written'[Len(written')], pendingVersionUpdates,
                                pendingVersionStringUpdates)
          ELSE written' = written ]_vars

\* a commit handed over a batch with entries from both staged maps
C9_Witness ==
  /\ lastCall.op = "commit" /\ lastCall.write # "none"
  /\ Len(written) >= 1
  /\ \E m1, m2 \in DOMAIN written[Len(written)] :
       /\ m1 # m2
       /\ written[Len(written)][m1] \in StagedVersionStrings
       /\ written[Len(written)][m2] \in { v.raw : v \in StagedVersions }

\* the modules whose staged SemVer entry differs between two maps
ChangedEntries(before, after) ==
  { m \in Modules :
      \/ (m \in DOMAIN before) # (m \in DOMAIN after)
      \/ (m \in DOMAIN before /\ m \in DOMAIN after /\ before[m] # after[m]) }

\* updateVersion touches the entry of one module only
UpdateTouchesOne ==
  (IsCall /\ lastCall'.op = "updateVersion" /\ ~lastCall'.threw) =>
     /\ Cardinality(ChangedEntries(pendingVersionUpdates, pendingVersionUpdates')) <= 1
     /\ pendingVersionStringUpdates' = pendingVersionStringUpdates

\* C10 as stated: when updateVersion was called several times for a module before
\* commit(), the batch has one entry for it, the version of the last call, and
\* the staged versions of other modules are unaffected.
C10_LastUpdateWins ==
  [][ /\ UpdateTouchesOne
      /\ (IsCommit /\ lastCall'.write # "none") =>
           \A m \in Modules :
             Len(updateLog[m]) >= 2 =>
               /\ m \in DOMAIN written'[Len(written')]
               /\ written'[Len(written')][m] = formatSemVer(updateLog[m][Len(updateLog[m])]) ]_vars

\* C10 amended: the same, provided no updateVersionString entry is staged for
\* the module; a staged version string takes priority in the batch.
C10_LastUpdateWinsUnlessString ==
  [][ /\ UpdateTouchesOne
      /\ (IsCommit /\ lastCall'.write # "none") =>
           \A m \in Modules :
             Len(updateLog[m]) >= 2 =>
               /\ m \in DOMAIN written'[Len(written')]
               /\ written'[Len(written')][m] =
                    IF m \in DOMAIN pendingVersionStringUpdates
                      THEN pendingVersionStringUpdates[m]
                      ELSE formatSemVer(updateLog[m][Len(updateLog[m])]) ]_vars

\* a module was staged twice with different versions and then handed over
C10_Witness ==
  /\ lastCall.op = "commit" /\ lastCall.write = "rejected"
  /\ \E m \in Modules :
       /\ Len(updateLog[m]) >= 2
       /\ updateLog[m][1] # updateLog[m][Len(updateLog[m])]
       /\ m \notin DOMAIN pendingVersionStringUpdates
       /\ written[Len(written)][m] = formatSemVer(updateLog[m][Len(updateLog[m])])
       /\ \E k \in DOMAIN pendingVersionUpdates : k # m

(***************************************************************************)
(* MonorepoVersionRunner.run, from the decisions to the returned result.   *)
(***************************************************************************)
\* the runner options read after the analysis
RunOptions ==
  [prereleaseMode : BOOLEAN, bumpUnchanged : BOOLEAN, addBuildMetadata : BOOLEAN,
   gradleSnapshot : BOOLEAN, adapter : {"gradle"},
   dryRun : BOOLEAN, pushChanges : BOOLEAN, pushTags : BOOLEAN]

\* the module graphs of a run: lib is the only module others depend on
RunGraphs ==
  { g \in Graphs : \A m \in Modules : g[m] # <<>> => (m = "lib" /\ \A i \in 1..Len(g[m]) : g[m][i] # "lib") }

\* the versions found on disk: plain releases, or what earlier runs left behind
RunDiskVersions ==
  { [lib |-> parseSemVer(<<"1", ".", "2", ".", "3">>),
     app |-> parseSemVer(<<"2", ".", "0", ".", "0">>),
     util |-> parseSemVer(<<"0", ".", "9", ".", "0">>)],
    [lib |-> parseSemVer(<<"1", ".", "2", ".", "3">> \o SNAPSHOT_SUFFIX),
     app |-> parseSemVer(<<"1", ".", "2", ".", "4", "-">> \o PRERELEASE_ID \o <<".", "0">>),
     util |-> parseSemVer(<<"2", ".", "0", ".", "0">>)] }

\* the RunnerResult before run returns
NoResult == [bumped |-> FALSE, changedModules |-> <<>>, createdTags |-> <<>>,
             changelogPaths |-> <<>>]

\* one call made to the outside
Effect(kind, what) == [kind |-> kind, what |-> what]

\* one iteration of the version loop: the decision with its toVersion
PlannedChange(id, chg, from, opts) ==
  LET r == ComputedVersion(chg, from, opts)
  IN [id |-> id, fromVersion |-> from, toVersion |-> r.toVersion,
      bumpType |-> r.change.bumpType, reason |-> r.change.reason,
      needsProcessing |-> r.change.needsProcessing]

\* the version loop without the needsProcessing test before the push
ProcessedChanges_KeepsAll(chgs, disk, opts, ord) ==
  [i \in 1..Len(ord) |-> PlannedChange(ord[i], chgs[ord[i]], disk[ord[i]], opts)]

\* the version loop: processedModuleChanges, in the order of the decisions
ProcessedChanges(chgs, disk, opts, ord) ==
  SelectSeq([i \in 1..Len(ord) |-> PlannedChange(ord[i], chgs[ord[i]], disk[ord[i]], opts)],
            LAMBDA c : c.needsProcessing)

\* processedModuleChanges.map(...) of the returned changedModules
ChangedModules(processedChanges) ==
  [i \in 1..Len(processedChanges) |->
     [id |-> processedChanges[i].id,
      from |-> formatSemVer(processedChanges[i].fromVersion),
      to |-> processedChanges[i].toVersion,
      bumpType |-> processedChanges[i].bumpType]]

\* the tag names `${change.module.name}@${change.toVersion}`
TagNames(processedChanges) ==
  [i \in 1..Len(processedChanges) |->
     [name |-> processedChanges[i].id, version |-> processedChanges[i].toVersion]]

\* the staging loop: versionManager.updateVersion(change.module.id, change.toVersion)
RECURSIVE StageAll(_, _)
StageAll(staged, processedChanges) ==
  IF processedChanges = <<>> THEN staged
  ELSE StageAll(MapSet(staged, Head(processedChanges).id, Head(processedChanges).toVersion),
                Tail(processedChanges))

InitRun ==
  /\ options \in RunOptions
  /\ affects \in RunGraphs
  /\ rules = DEFAULT_RULES
  /\ order = DiscoveryOrder
  /\ diskVersion \in RunDiskVersions
  /\ \E b \in BumpAssignments :
       initial = [m \in Modules |-> InitialChange(b[m], options)]
  /\ changes = initial
  /\ queue = <<>> /\ processed = {} /\ pushCount = Idle
  /\ processedModuleChanges = <<>>
  /\ pendingVersionUpdates = EmptyMap
  /\ pendingVersionStringUpdates = EmptyMap
  /\ written = <<>>
  /\ effects = <<>>
  /\ result = NoResult
  /\ pc = "plan"
  /\ fromVersion = Idle /\ change = Idle /\ toVersion = Idle /\ collected = Idle
  /\ lastCall = Idle /\ calls = Idle /\ updateLog = Idle
  /\ stageVersion = Idle /\ stageTrail = Idle
  /\ commits = Idle /\ config = Idle /\ commitsBump = Idle
  /\ mergeInputs = Idle /\ mergeResult = Idle

RunFrame ==
  UNCHANGED <<affects, rules, options, order, initial, queue, processed, versionVars,
              pendingVersionUpdates, lastCall, calls, updateLog, diskVersion, stageVars,
              classifyVars, mergeVars, pushCount>>

\* AfterPlan without the dry-run return
AfterPlan_IgnoresDryRun(processedChanges, opts) ==
  IF Len(processedChanges) = 0 THEN "returned" ELSE "stage"

\* where run continues after the version loop: the two early returns
AfterPlan(processedChanges, opts) ==
  IF Len(processedChanges) = 0 THEN "returned"
  ELSE IF opts.dryRun THEN "returned"
  ELSE "stage"

\* cascade, version loop, and the two early returns (nothing to do, dry run)
RunPlan ==
  /\ pc = "plan"
  /\ changes' = calculateCascadeEffects(affects, rules, initial, order)
  /\ processedModuleChanges' = ProcessedChanges(changes', diskVersion, options, order)
  /\ pc' = AfterPlan(processedModuleChanges', options)
  /\ result' = IF pc' # "returned" THEN result
               ELSE IF Len(processedModuleChanges') = 0 THEN NoResult
               ELSE [bumped |-> TRUE,
                     changedModules |-> ChangedModules(processedModuleChanges'),
                     createdTags |-> TagNames(processedModuleChanges'),
                     changelogPaths |-> <<>>]
  /\ UNCHANGED <<pendingVersionStringUpdates, written, effects>>
  /\ RunFrame

\* the staging loop
RunStage ==
  /\ pc = "stage"
  /\ pendingVersionStringUpdates' = StageAll(pendingVersionStringUpdates, processedModuleChanges)
  /\ effects' = effects \o [i \in 1..Len(processedModuleChanges) |->
                              Effect("updateVersion", processedModuleChanges[i].id)]
  /\ pc' = "commit"
  /\ UNCHANGED <<changes, processedModuleChanges, written, result>>
  /\ RunFrame

\* await versionManager.commit(): the write-back resolves, or rejects and run throws
RunCommit ==
  /\ pc = "commit"
  /\ hasPendingUpdates(pendingVersionUpdates, pendingVersionStringUpdates)
  /\ written' = Append(written, CommitBatch(pendingVersionUpdates, pendingVersionStringUpdates))
  /\ effects' = Append(effects, Effect("writeVersionUpdates", ""))
  /\ \E writeOk \in BOOLEAN :
       /\ pendingVersionStringUpdates' = AfterWrite(pendingVersionStringUpdates, writeOk)
       /\ pc' = IF writeOk THEN "changelog" ELSE "failed"
  /\ UNCHANGED <<changes, processedModuleChanges, result>>
  /\ RunFrame

\* generateChangelogsForModules and generateRootChangelog
RunChangelogs ==
  /\ pc = "changelog"
  /\ effects' = effects
                  \o [i \in 1..Len(processedModuleChanges) |->
                        Effect("changelog", processedModuleChanges[i].id)]
                  \o <<Effect("changelog", "root")>>
  /\ pc' = "git"
  /\ UNCHANGED <<changes, processedModuleChanges, pendingVersionStringUpdates, written, result>>
  /\ RunFrame

\* the git calls of the try block, up to the first one that throws
GitCalls(outcome) ==
  CASE outcome = "pushed" -> <<Effect("git", "add"), Effect("git", "commit"), Effect("git", "push")>>
    [] outcome = "noChanges" -> <<Effect("git", "add")>>
    [] outcome = "addFails" -> <<Effect("warning", "add")>>
    [] outcome = "commitFails" -> <<Effect("git", "add"), Effect("warning", "commit")>>
    [] outcome = "pushFails" ->
         <<Effect("git", "add"), Effect("git", "commit"), Effect("warning", "push")>>
    [] outcome = "skipped" -> <<>>

\* the outcomes of the commit-and-push block
GitOutcomes(opts) ==
  IF opts.pushChanges
    THEN {"pushed", "noChanges", "addFails", "commitFails", "pushFails"}
    ELSE {"skipped"}

\* AfterGit with a catch block that throws the error on
AfterGit_Rethrows(outcome) ==
  IF outcome \in {"addFails", "commitFails", "pushFails"} THEN "failed" ELSE "tags"

\* where run continues after the commit-and-push block: the catch block only warns
AfterGit(outcome) == "tags"

\* commit and push of the changed files; a failure is logged as a warning
RunGit ==
  /\ pc = "git"
  /\ \E outcome \in GitOutcomes(options) :
       /\ effects' = effects \o GitCalls(outcome)
       /\ pc' = AfterGit(outcome)
  /\ UNCHANGED <<changes, processedModuleChanges, pendingVersionStringUpdates, written, result>>
  /\ RunFrame

\* Interleavings in which every call takes effect in the order it was made
Interleavings_InCallOrder(started) == {started}

\* createTag and pushTags are async and are called without await: each call starts a
\* git process and the processes run side by side, so what they do to the repository
\* and the remote lands in any order
Interleavings(started) ==
  { [i \in 1..Len(started) |-> started[p[i]]] : p \in Orders(1..Len(started)) }

\* tag creation and push, and the return of the result
RunTags ==
  /\ pc = "tags"
  /\ LET tagging == options.pushTags /\ options.pushChanges
         createdTags == IF tagging THEN TagNames(processedModuleChanges) ELSE <<>>
         started == [i \in 1..Len(createdTags) |-> Effect("createTag", createdTags[i].name)]
                      \o (IF tagging THEN <<Effect("git", "pushTags")>> ELSE <<>>)
     IN /\ \E landed \in Interleavings(started) : effects' = effects \o landed
        /\ result' = [bumped |-> TRUE,
                      changedModules |-> ChangedModules(processedModuleChanges),
                      createdTags |-> createdTags,
                      changelogPaths |-> SelectSeq(effects, LAMBDA e : e.kind = "changelog")]
  /\ pc' = "returned"
  /\ UNCHANGED <<changes, processedModuleChanges, pendingVersionStringUpdates, written>>
  /\ RunFrame

NextRun == RunPlan \/ RunStage \/ RunCommit \/ RunChangelogs \/ RunGit \/ RunTags

SpecRun == InitRun /\ [][NextRun]_vars

(***************************************************************************)
(* Claims about run.                                                       *)
(***************************************************************************)
\* the module ids of a sequence of records with an id field
IdsOf(records) == { records[i].id : i \in 1..Len(records) }

\* the decisions as calculateCascadeEffects leaves them
Cascaded == calculateCascadeEffects(affects, rules, initial, order)

\* the modules the version loop marks for processing
Planned ==
  { m \in Modules : PlannedChange(m, Cascaded[m], diskVersion[m], options).needsProcessing }

\* no version was staged or written, no changelog generated, no git call made
NothingDone ==
  /\ effects = <<>>
  /\ written = <<>>
  /\ pendingVersionUpdates = EmptyMap
  /\ pendingVersionStringUpdates = EmptyMap

\* C11: in a dry run updateVersion and commit() are never invoked, no changelog
\* is generated and no git commit, push or tag is made, and the returned result
\* lists the planned changed modules with their planned versions.
C11_DryRunWritesNothing ==
  options.dryRun =>
    /\ NothingDone
    /\ pc \in {"plan", "returned"}
    /\ pc = "returned" =>
         /\ IdsOf(result.changedModules) = Planned
         /\ \A i \in 1..Len(result.changedModules) :
              LET c == result.changedModules[i]
              IN c.to = PlannedChange(c.id, Cascaded[c.id], diskVersion[c.id], options).toVersion
         /\ result.bumped = (Planned # {})

\* a dry run with push and tags enabled returned two planned modules
C11_Witness ==
  /\ options.dryRun /\ options.pushChanges /\ options.pushTags
  /\ pc = "returned"
  /\ Len(result.changedModules) >= 2
  /\ NothingDone

\* no forcing mode is active
NoForcingMode ==
  /\ ~(options.prereleaseMode /\ options.bumpUnchanged)
  /\ ~options.addBuildMetadata
  /\ ~options.gradleSnapshot

\* module m never reached the Version Manager, a batch or the result
Dropped(m) ==
  /\ m \notin IdsOf(processedModuleChanges)
  /\ m \notin DOMAIN pendingVersionUpdates
  /\ m \notin DOMAIN pendingVersionStringUpdates
  /\ \A i \in 1..Len(written) : m \notin DOMAIN written[i]
  /\ \A i \in 1..Len(effects) : effects[i] # Effect("updateVersion", m)
  /\ m \notin IdsOf(result.changedModules)

\* C12: a module whose commits classify to none and that the cascade does not
\* raise, in a run with no forcing mode, is never passed to updateVersion, never
\* written, and is not among the changed modules.
C12_UnchangedIsDropped ==
  \A m \in Modules :
    (initial[m].bumpType = "none" /\ Cascaded[m].bumpType = "none" /\ NoForcingMode)
      => Dropped(m)

\* a run that wrote another module and returned, with an unchanged module left out
C12_Witness ==
  /\ pc = "returned" /\ Len(written) = 1 /\ NoForcingMode
  /\ \E m \in Modules :
       /\ initial[m].bumpType = "none" /\ Cascaded[m].bumpType = "none"
       /\ Dropped(m)
       /\ \E k \in DOMAIN written[1] : k # m

\* module m is in processedModuleChanges and in every batch, with the suffix
WrittenWithSuffix(m) ==
  /\ \E i \in 1..Len(processedModuleChanges) :
       /\ processedModuleChanges[i].id = m
       /\ EndsWith(processedModuleChanges[i].toVersion, SNAPSHOT_SUFFIX)
  /\ \A i \in 1..Len(written) :
       m \in DOMAIN written[i] /\ EndsWith(written[i][m], SNAPSHOT_SUFFIX)
  /\ pc = "returned" => m \in IdsOf(result.changedModules)

\* C14 as stated: with snapshot mode enabled every module that otherwise had no
\* pending change is marked for writing and is in the written batch with a
\* version that ends with the snapshot suffix.
C14_SnapshotMarksEveryModule ==
  (options.gradleSnapshot /\ pc # "plan") =>
    \A m \in Modules : ~Cascaded[m].needsProcessing => WrittenWithSuffix(m)

\* C14 amended: the same for every such module whose version on disk does not
\* already end with the snapshot suffix.
C14_SnapshotMarksUnsuffixed ==
  (options.gradleSnapshot /\ pc # "plan") =>
    \A m \in Modules :
      (~Cascaded[m].needsProcessing /\ ~EndsWith(formatSemVer(diskVersion[m]), SNAPSHOT_SUFFIX))
        => WrittenWithSuffix(m)

\* a snapshot run wrote a module that had no pending change
C14_Witness ==
  /\ options.gradleSnapshot /\ pc = "returned" /\ Len(written) = 1
  /\ \E m \in Modules :
       /\ ~Cascaded[m].needsProcessing
       /\ ~EndsWith(formatSemVer(diskVersion[m]), SNAPSHOT_SUFFIX)
       /\ written[1][m] = formatSemVer(diskVersion[m]) \o SNAPSHOT_SUFFIX

(***************************************************************************)
(* Commit classification: getBumpTypeForCommit (src/config/index.ts) and   *)
(* calculateBumpFromCommits (src/utils/commits.ts).                        *)
(***************************************************************************)
\* commitTypes of DEFAULT_CONFIG
DEFAULT_COMMIT_TYPES ==
  [feat |-> "minor", fix |-> "patch", perf |-> "patch", refactor |-> "patch",
   docs |-> "ignore", test |-> "ignore", chore |-> "ignore", style |-> "ignore",
   ci |-> "ignore", build |-> "ignore"]

\* the commitTypes tables the model draws the configuration from
CommitTypeTables ==
  { DEFAULT_COMMIT_TYPES,
    [feat |-> "major", fix |-> "none", docs |-> "minor", chore |-> "ignore"] }

\* the configurations: defaultBump and commitTypes
Configs == [defaultBump : BumpTypes, commitTypes : CommitTypeTables]

\* property names every plain object inherits from Object.prototype
ObjectPrototypeKeys == {"constructor", "toString"}

\* the value of an inherited property (a function), and of a missing one
Inherited == "[Function]"
Undefined == "undefined"

\* config.commitTypes[commitType]: own property, inherited property, or undefined
PropertyOf(commitTypes, commitType) ==
  IF commitType \in DOMAIN commitTypes THEN commitTypes[commitType]
  ELSE IF commitType \in ObjectPrototypeKeys THEN Inherited
  ELSE Undefined

\* getBumpTypeForCommit(commitType, isBreaking, config)
getBumpTypeForCommit(commitType, isBreaking, cfg) ==
  IF isBreaking THEN "major"
  ELSE LET configuredBump == PropertyOf(cfg.commitTypes, commitType)
       IN IF configuredBump = "ignore" THEN "none"
          ELSE IF configuredBump # Undefined THEN configuredBump
          ELSE cfg.defaultBump

\* calculateBumpFromCommits(commits, config): the non-none bumps, merged
calculateBumpFromCommits(cs, cfg) ==
  LET perCommit == [i \in 1..Len(cs) |->
                      getBumpTypeForCommit(cs[i].type, cs[i].breaking, cfg)]
      bumpTypes == SelectSeq(perCommit, LAMBDA b : b # "none")
  IN maxBumpType(bumpTypes)

\* the commit types parseGitLog can hand over: any word before the colon
CommitTypeNames == {"feat", "fix", "docs", "wip", "constructor"}

CommitInfos == [type : CommitTypeNames, breaking : BOOLEAN]

RECURSIVE SeqsUpTo(_, _)
SeqsUpTo(S, n) ==
  IF n = 0 THEN {<<>>}
  ELSE LET shorter == SeqsUpTo(S, n - 1)
       IN shorter \cup { Append(t, x) : t \in { u \in shorter : Len(u) = n - 1 }, x \in S }

InitCommits ==
  /\ commits \in SeqsUpTo(CommitInfos, MaxCommits)
  /\ config \in Configs
  /\ commitsBump = "pending"
  /\ pc = "classify"
  /\ affects = Idle /\ rules = Idle /\ options = Idle /\ order = Idle /\ initial = Idle
  /\ changes = Idle /\ queue = Idle /\ processed = Idle /\ pushCount = Idle
  /\ fromVersion = Idle /\ change = Idle /\ toVersion = Idle /\ collected = Idle
  /\ pendingVersionUpdates = Idle /\ pendingVersionStringUpdates = Idle
  /\ written = Idle /\ lastCall = Idle /\ calls = Idle /\ updateLog = Idle
  /\ diskVersion = Idle /\ processedModuleChanges = Idle /\ effects = Idle /\ result = Idle
  /\ stageVersion = Idle /\ stageTrail = Idle
  /\ mergeInputs = Idle /\ mergeResult = Idle

\* the call calculateBumpFromCommits(commits, config) of the runner
Classify ==
  /\ pc = "classify"
  /\ commitsBump' = calculateBumpFromCommits(commits, config)
  /\ pc' = "classified"
  /\ UNCHANGED <<cascadeVars, versionVars, vmVars, runVars, stageVars, mergeVars, options,
                 commits, config>>

NextCommits == Classify

SpecCommits == InitCommits /\ [][NextCommits]_vars

\* the highest bump type of a set under none < patch < minor < major
HighestOf(S) ==
  CHOOSE b \in S \cup {"none"} : \A o \in S \cup {"none"} : priority[b] >= priority[o]

\* the bump the classification rules assign to one commit
RuleBump(c, cfg) ==
  IF c.breaking THEN "major"
  ELSE IF c.type \in DOMAIN cfg.commitTypes
    THEN IF cfg.commitTypes[c.type] = "ignore" THEN "none" ELSE cfg.commitTypes[c.type]
  ELSE cfg.defaultBump

\* C21: the bump calculateBumpFromCommits returns is the highest per-commit bump, where
\* a breaking commit counts major, a type mapped to 'ignore' counts none, a mapped type
\* counts its bump and an unmapped type counts defaultBump (none for no commits).
C21_MaxOfCommitBumps ==
  pc = "classified" =>
    commitsBump = HighestOf({ RuleBump(commits[i], config) : i \in DOMAIN commits })

(***************************************************************************)
(* maxBumpType on a list that grows one bump type at a time.               *)
(***************************************************************************)
InitMerge ==
  /\ mergeInputs = <<>>
  /\ mergeResult = maxBumpType(<<>>)
  /\ pc = "merge"
  /\ affects = Idle /\ rules = Idle /\ options = Idle /\ order = Idle /\ initial = Idle
  /\ changes = Idle /\ queue = Idle /\ processed = Idle /\ pushCount = Idle
  /\ fromVersion = Idle /\ change = Idle /\ toVersion = Idle /\ collected = Idle
  /\ pendingVersionUpdates = Idle /\ pendingVersionStringUpdates = Idle
  /\ written = Idle /\ lastCall = Idle /\ calls = Idle /\ updateLog = Idle
  /\ diskVersion = Idle /\ processedModuleChanges = Idle /\ effects = Idle /\ result = Idle
  /\ stageVersion = Idle /\ stageTrail = Idle
  /\ commits = Idle /\ config = Idle /\ commitsBump = Idle

\* maxBumpType called on the list extended by one more bump type
MergeOneMore ==
  /\ Len(mergeInputs) < MaxMerge
  /\ \E b \in BumpTypes :
       /\ mergeInputs' = Append(mergeInputs, b)
       /\ mergeResult' = maxBumpType(Append(mergeInputs, b))
  /\ UNCHANGED <<cascadeVars, versionVars, vmVars, runVars, stageVars, classifyVars,
                 options, pc>>

NextMerge == MergeOneMore

SpecMerge == InitMerge /\ [][NextMerge]_vars

\* the members of a sequence
Range(q) == { q[i] : i \in DOMAIN q }

\* C22: maxBumpType returns the highest member of its list under
\* none < patch < minor < major (none for the empty list), and as a binary
\* operation it is idempotent, commutative and associative.
C22_MaxAlgebra ==
  /\ mergeResult = HighestOf(Range(mergeInputs))
  /\ mergeInputs = <<>> => mergeResult = "none"
  /\ \A a \in Range(mergeInputs), b \in Range(mergeInputs), c \in Range(mergeInputs) :
       /\ maxBumpType(<<a, a>>) = a
       /\ maxBumpType(<<a, b>>) = maxBumpType(<<b, a>>)
       /\ maxBumpType(<<maxBumpType(<<a, b>>), c>>) = maxBumpType(<<a, maxBumpType(<<b, c>>)>>)

\* a list whose highest member is neither first nor last
C22_Witness ==
  /\ mergeInputs = <<"minor", "major", "none", "patch">>
  /\ mergeResult = "major"

(***************************************************************************)
(* calculateCascadeEffects on the array of ProcessingModuleChange records  *)
(* the runner builds, one of which may name a module the hierarchy lacks.  *)
(***************************************************************************)
\* projectInfo.version of a module at classification time
DeclaredVersion(m) ==
  CASE m = "lib" -> "1.2.3" [] m = "app" -> "2.0.0" [] m = "util" -> "0.9.0"
    [] OTHER -> "0.0.0"

\* the ProcessingModuleChange pushed by the runner: module, fromVersion and the decision
ModuleChange(m, decision) ==
  [module |-> m, fromVersion |-> DeclaredVersion(m), bumpType |-> decision.bumpType,
   reason |-> decision.reason, needsProcessing |-> decision.needsProcessing]

\* the module ids of the array: those of the hierarchy, with or without a foreign one
ArrayIds == { Modules, Modules \cup {UnknownModule} }

\* a sequence back to front
Reversed(q) == [i \in 1..Len(q) |-> q[Len(q) + 1 - i]]

\* the orders of the array: the discovered modules in discovery order or its reverse,
\* and a foreign decision in front of them or behind them
ArrayOrders(ids) ==
  { o \in Orders(ids) :
      /\ SelectSeq(o, LAMBDA x : x \in Modules) \in {DiscoveryOrder, Reversed(DiscoveryOrder)}
      /\ UnknownModule \in ids => (o[1] = UnknownModule \/ o[Len(o)] = UnknownModule) }

\* the classifier outputs of the foreign decision
ForeignBumps == {"none", "minor"}

InitArray ==
  /\ affects \in Graphs
  /\ rules \in RuleSet
  /\ options \in CascadeOptions
  /\ \E ids \in ArrayIds :
       /\ order \in ArrayOrders(ids)
       /\ \E b \in BumpAssignments, g \in ForeignBumps :
            initial = [m \in ids |->
                         ModuleChange(m, InitialChange(IF m \in Modules THEN b[m] ELSE g,
                                                       options))]
       /\ pushCount = [m \in ids |-> 0]
  /\ changes = initial
  /\ queue = order
  /\ processed = {}
  /\ pc = "cascade"
  /\ fromVersion = Idle /\ change = Idle /\ toVersion = Idle /\ collected = Idle
  /\ pendingVersionUpdates = Idle /\ pendingVersionStringUpdates = Idle
  /\ written = Idle /\ lastCall = Idle /\ calls = Idle /\ updateLog = Idle
  /\ diskVersion = Idle /\ processedModuleChanges = Idle /\ effects = Idle /\ result = Idle
  /\ stageVersion = Idle /\ stageTrail = Idle
  /\ commits = Idle /\ config = Idle /\ commitsBump = Idle
  /\ mergeInputs = Idle /\ mergeResult = Idle

\* a pop whose module is to be processed but is unknown to the hierarchy:
\* processed.add, then getModuleInfo throws and the error leaves the function
CascadeThrow ==
  /\ pc = "cascade"
  /\ queue # <<>>
  /\ ~SkipCurrent(changes[Head(queue)], Head(queue), processed)
  /\ Head(queue) \notin DOMAIN affects
  /\ queue' = Dequeue(queue)
  /\ processed' = processed \cup {Head(queue)}
  /\ pc' = "failed"
  /\ UNCHANGED <<affects, rules, options, order, initial, changes, pushCount,
                 versionVars, vmVars, runVars, stageVars, classifyVars, mergeVars>>

NextArray == CascadeSkip \/ CascadeProcess \/ CascadeThrow \/ CascadeReturn

SpecArray == InitArray /\ [][NextArray]_vars

\* C23: when a decision handed to calculateCascadeEffects names a module id the
\* hierarchy does not know, the function does not return: the run aborts.
C23_AbsentModuleAborts ==
  UnknownModule \in DOMAIN initial => pc # "done"

\* the members of the affected set of module u
AffectedBy(u) == IF u \in DOMAIN affects THEN Range(affects[u]) ELSE {}

FanSources == {"core", "api", "db", "ui"}

FanModules == FanSources \cup {"app"}

\* core affects app; each other source may; app may affect core back
FanGraphs ==
  { [m \in FanModules |->
       IF m = "app" THEN (IF back THEN <<"core">> ELSE <<>>)
       ELSE IF m \in into THEN <<"app">> ELSE <<>>] :
      into \in { S \in SUBSET FanSources : "core" \in S }, back \in BOOLEAN }

\* the array lists the sources in a fixed order, app in front of them or behind them
FanOrders == { <<"app", "core", "api", "db", "ui">>, <<"core", "api", "db", "ui", "app">> }

InitFanIn ==
  /\ affects \in FanGraphs
  /\ rules \in RuleSet
  /\ options \in CascadeOptions
  /\ order \in FanOrders
  /\ \E b \in [FanSources -> BumpTypes], a \in {"none", "patch"} :
       initial = [m \in FanModules |->
                    InitialChange(IF m = "app" THEN a ELSE b[m], options)]
  /\ changes = initial
  /\ queue = order
  /\ processed = {}
  /\ pushCount = [m \in FanModules |-> 0]
  /\ pc = "cascade"
  /\ fromVersion = Idle /\ change = Idle /\ toVersion = Idle /\ collected = Idle
  /\ pendingVersionUpdates = Idle /\ pendingVersionStringUpdates = Idle
  /\ written = Idle /\ lastCall = Idle /\ calls = Idle /\ updateLog = Idle
  /\ diskVersion = Idle /\ processedModuleChanges = Idle /\ effects = Idle /\ result = Idle
  /\ stageVersion = Idle /\ stageTrail = Idle
  /\ commits = Idle /\ config = Idle /\ commitsBump = Idle
  /\ mergeInputs = Idle /\ mergeResult = Idle

SpecFanIn == InitFanIn /\ [][NextCascade]_vars

\* C25: during one propagation no decision is pushed back onto the queue more than
\* 3 times.
C25_AtMostThreePushes == \A m \in DOMAIN pushCount : pushCount[m] <= 3

\* four modules affect app, and app was pushed for patch, for minor and for major
C25_Witness ==
  /\ pc = "done"
  /\ pushCount["app"] = 3
  /\ \A u \in FanSources : u \in processed /\ affects[u] = <<"app">>

(***************************************************************************)
(* Cascade propagation: what a processed module keeps, and the upper bound *)
(* of the result.                                                          *)
(***************************************************************************)
\* C27: a module's affected set is expanded at most once (the step that rewrites or
\* pushes decisions adds its not yet processed module to processed, and processed
\* never shrinks), and the decision of a processed module is never modified again.
C27_ExpandedOnce ==
  [][ /\ processed \subseteq processed'
      /\ \A m \in processed : changes'[m] = changes[m]
      /\ (changes' # changes \/ pushCount' # pushCount) =>
            /\ Head(queue) \notin processed
            /\ processed' = processed \cup {Head(queue)} ]_vars

\* a processed module sits in the affected set of a module processed later whose
\* rule asks for more than the processed module has
C27_Witness ==
  /\ pc = "done"
  /\ \E m, u \in processed :
       /\ m # u
       /\ m \in Range(affects[u])
       /\ priority[getDependencyBumpType(changes[u].bumpType, rules)]
            > priority[changes[m].bumpType]

\* C28: after propagation no module has more than max(initial bumpType, max over its
\* upstream modules u of dependencyRule(final bumpType of u)), and a module raised
\* above its initial bumpType has reason cascade and is marked for writing.
C28_NeverOverBumps ==
  pc = "done" =>
    \A m \in Modules :
      /\ priority[changes[m].bumpType]
           <= priority[MaxOf2(initial[m].bumpType, MaxOver(BumpOf(changes), Upstream(m)))]
      /\ priority[changes[m].bumpType] > priority[initial[m].bumpType]
           => (changes[m].reason = "cascade" /\ changes[m].needsProcessing)

\* a module with commits of its own was raised further by an upstream module
C28_Witness ==
  /\ pc = "done"
  /\ \E m \in Modules :
       /\ initial[m].bumpType # "none"
       /\ priority[changes[m].bumpType] > priority[initial[m].bumpType]
       /\ changes[m].bumpType # "major"
       /\ changes[m].reason = "cascade"

(***************************************************************************)
(* run: the order of the steps and the git failures.                       *)
(***************************************************************************)
\* the place of a step in the order write-back, git commit, git push, tag creation,
\* tag push; 0 for the other effects
StepRank(e) ==
  CASE e.kind = "writeVersionUpdates" -> 1
    [] e = Effect("git", "commit") -> 2
    [] e = Effect("git", "push") -> 3
    [] e.kind = "createTag" -> 4
    [] e = Effect("git", "pushTags") -> 5
    [] OTHER -> 0

TagCreated == \E i \in DOMAIN effects : effects[i].kind = "createTag"

\* C24: within one run the steps take effect in the order write-back, git commit, git
\* push, tag creation, tag push; a tag is created only in a run whose commit() completed,
\* and only when push-tags and push-changes are both enabled.
C24_StepOrder ==
  /\ \A i, j \in DOMAIN effects :
       (i < j /\ StepRank(effects[i]) > 0 /\ StepRank(effects[j]) > 0)
         => StepRank(effects[i]) <= StepRank(effects[j])
  /\ TagCreated =>
       /\ pc = "returned"
       /\ written # <<>>
       /\ options.pushTags /\ options.pushChanges

GitWarned == \E i \in DOMAIN effects : effects[i].kind = "warning"

\* C30: a failure of git add, commit or push after the write-back does not fail the run:
\* it is logged as a warning, the run goes on to the tags (created when push-tags and
\* push-changes are enabled) and returns bumped = true with the changed modules.
C30_GitFailureIsWarning ==
  GitWarned =>
    /\ written # <<>>
    /\ pc \in {"tags", "returned"}
    /\ pc = "returned" =>
         /\ result.bumped
         /\ result.changedModules = ChangedModules(processedModuleChanges)
         /\ result.createdTags =
              (IF options.pushTags THEN TagNames(processedModuleChanges) ELSE <<>>)
         /\ \A k \in 1..Len(result.createdTags) :
              \E i, j \in DOMAIN effects :
                /\ i < j
                /\ effects[i].kind = "warning"
                /\ effects[j] = Effect("createTag", result.createdTags[k].name)

\* git commit failed, and the run returned after tagging the changed module
C30_Witness ==
  /\ pc = "returned"
  /\ \E i \in DOMAIN effects : effects[i] = Effect("warning", "commit")
  /\ TagCreated
  /\ result.bumped /\ Len(result.changedModules) > 0

(***************************************************************************)
(* VersionManager: updates for a module the hierarchy does not know.       *)
(***************************************************************************)
\* C29: updateVersion (and updateVersionString) for a module id that is not in the
\* hierarchy throws and leaves the staged maps as they were, so the unknown module is
\* never staged and no batch handed to the write-back holds an entry for it.
C29_UnknownModuleRejected ==
  [][ /\ (IsCall /\ lastCall'.threw
             /\ lastCall'.op \in {"updateVersion", "updateVersionString"}) =>
            /\ pendingVersionUpdates' = pendingVersionUpdates
            /\ pendingVersionStringUpdates' = pendingVersionStringUpdates
            /\ written' = written
      /\ UnknownModule \notin DOMAIN pendingVersionUpdates'
      /\ UnknownModule \notin DOMAIN pendingVersionStringUpdates'
      /\ \A i \in DOMAIN written' : UnknownModule \notin DOMAIN written'[i] ]_vars

\* a batch was written after updateVersion threw for the unknown module; it holds
\* the entry that was staged before
C29_Witness ==
  /\ lastCall = [op |-> "updateVersion", threw |-> TRUE, write |-> "none"]
  /\ hasPendingUpdates(pendingVersionUpdates, pendingVersionStringUpdates)
  /\ written # <<>>

====
